---- MODULE Spec2Model ----
(***************************************************************************)
(* A model of the RAG engine of chatbot-rag-farmacia-popular               *)
(* (src/rag_engine.py, driven by src/app.py): the chunker, the cache       *)
(* fingerprint, the cache store, the initialize()/query() lifecycle and    *)
(* the similarity pre-shortlist.                                           *)
(*                                                                         *)
(* Text is a sequence of one-character strings, so that slicing,           *)
(* splitting, stripping and concatenation are computed as Python computes  *)
(* them.                                                                   *)
(***************************************************************************)
EXTENDS Integers, Sequences, FiniteSets, TLC

VARIABLES
    kb,             \* the *.txt files of knowledge_base_dir (the environment)
    cache,          \* the files of cache_dir, by fingerprint
    chunk_chars,    \* RAGEngine.chunk_chars
    chunk_overlap,  \* RAGEngine.chunk_overlap
    pre_k,          \* RAGEngine.pre_k
    documents,      \* RAGEngine.documents
    chunks,         \* RAGEngine.chunks
    embeddings,     \* RAGEngine.embeddings (None, or one row per encoded text)
    model,          \* RAGEngine.model   (None or loaded)
    qa,             \* RAGEngine.qa      (None or loaded)
    reranker,       \* RAGEngine.reranker (None or loaded)
    fingerprint,    \* RAGEngine._fingerprint
    initialized,    \* RAGEngine.initialized
    ipc,            \* where the worker thread is inside initialize()
    cpc,            \* where _chunk_documents is: between paragraphs or in the while loop
    di,             \* index of the document being chunked
    pi,             \* index of the paragraph being chunked
    start,          \* the while loop's start
    wins,           \* history: for each chunk appended, its paragraph and window
    stepsOk,        \* history: the steps of this initialize() call that completed
    hit,            \* the value _load_cache() returned to initialize()
    runs,           \* how many engines have been constructed on this cache directory
    qpc,            \* where the request thread is inside query()
    qobs,           \* what the running query() read: initialized and len(chunks)
    qres,           \* how the last query() ended
    fpIn,           \* two inputs of _compute_fingerprint
    fpOut,          \* their fingerprints
    sims,           \* the similarity scores of a retrieval
    shortlist       \* the pre-shortlist computed from sims

vars == <<kb, cache, chunk_chars, chunk_overlap, pre_k, documents, chunks,
          embeddings, model, qa, reranker, fingerprint, initialized, ipc, cpc,
          di, pi, start, wins, stepsOk, hit, runs, qpc, qobs, qres, fpIn,
          fpOut, sims, shortlist>>

\* Python's None, and a present value
None == <<>>
Some(v) == <<v>>

----------------------------------------------------------------------------
(* Bounds of the model *)

MaxContent == 4        \* longest file content, in characters
MaxChunkChars == 3     \* largest chunk_chars tried by the chunker runs
MaxOverlap == 3        \* largest chunk_overlap tried by the chunker runs
MaxChunks == 8         \* cap on the chunk list (the while loop may not end)

----------------------------------------------------------------------------
(* Text helpers *)

Min(a, b) == IF a < b THEN a ELSE b
Max(a, b) == IF a > b THEN a ELSE b

Whitespace == {" ", "\n"}

\* All texts over alphabet A of length 0..n.
Texts(A, n) == UNION {[1..k -> A] : k \in 0..n}

\* Python s[a:b] for 0 <= a <= b <= len(s).
Slice(s, a, b) == SubSeq(s, a + 1, b)

RECURSIVE LStrip(_)
LStrip(s) ==
    IF s # <<>> /\ Head(s) \in Whitespace THEN LStrip(Tail(s)) ELSE s

RECURSIVE RStrip(_)
RStrip(s) ==
    IF s # <<>> /\ s[Len(s)] \in Whitespace
    THEN RStrip(SubSeq(s, 1, Len(s) - 1)) ELSE s

\* str.strip()
Strip(s) == RStrip(LStrip(s))

\* str.split('\n'): the segments between newlines, empty ones included.
RECURSIVE SplitLines(_, _)
SplitLines(s, cur) ==
    IF s = <<>> THEN <<cur>>
    ELSE IF Head(s) = "\n" THEN <<cur>> \o SplitLines(Tail(s), <<>>)
    ELSE SplitLines(Tail(s), Append(cur, Head(s)))

RECURSIVE StripNonEmpty(_)
StripNonEmpty(segs) ==
    IF segs = <<>> THEN <<>>
    ELSE LET p == Strip(Head(segs))
         IN  (IF p # <<>> THEN <<p>> ELSE <<>>) \o StripNonEmpty(Tail(segs))

\* [p.strip() for p in content.split('\n') if p.strip()]
Paragraphs(content) == StripNonEmpty(SplitLines(content, <<>>))

----------------------------------------------------------------------------
(* Knowledge base files and _load_documents *)

File(name, content, mtime) ==
    [name |-> name, content |-> content, mtime |-> mtime,
     readable |-> TRUE, statable |-> TRUE]

RECURSIVE LoadDocuments(_)
LoadDocuments(files) ==
    IF files = <<>> THEN <<>>
    ELSE LET f == Head(files)
             content == Strip(f.content)
         IN  (IF f.readable /\ content # <<>>
              THEN <<[title |-> f.name, content |-> content]>>
              ELSE <<>>) \o LoadDocuments(Tail(files))

----------------------------------------------------------------------------
(* _chunk_documents, one loop iteration per step *)

WindowEnd(len, s, cc) == Min(len, s + cc)

NextStartSkipping(end, co) == Max(0, end - co + 1)

NextStart(end, co) == Max(0, end - co)

Chunk(id, title, text) == [id |-> id, title |-> title, text |-> text]

CurParas == Paragraphs(documents[di].content)
CurPara == CurParas[pi]

\* self.chunks = []; chunk_id = 0; enter the loops
ChunkBegin ==
    /\ ipc = "chunk" /\ cpc = "begin"
    /\ chunks' = <<>> /\ wins' = <<>>
    /\ di' = 1 /\ pi' = 1 /\ start' = 0
    /\ cpc' = "para"
    /\ stepsOk' = stepsOk \ {"chunks", "cache"}
    /\ UNCHANGED <<kb, cache, chunk_chars, chunk_overlap, pre_k, documents,
                   embeddings, model, qa, reranker, fingerprint, initialized,
                   ipc, hit, runs, qpc, qobs, qres, fpIn, fpOut, sims, shortlist>>

\* The two for loops: take the next paragraph; a short one is one chunk.
ChunkPara ==
    /\ ipc = "chunk" /\ cpc = "para"
    /\ IF di > Len(documents)
       THEN /\ ipc' = "fingerprint" /\ cpc' = "begin"
            /\ stepsOk' = stepsOk \cup {"chunks"}
            /\ UNCHANGED <<chunks, wins, di, pi, start>>
       ELSE IF pi > Len(CurParas)
       THEN /\ di' = di + 1 /\ pi' = 1
            /\ UNCHANGED <<chunks, wins, start, ipc, cpc, stepsOk>>
       ELSE IF Len(CurPara) <= chunk_chars
       THEN /\ Len(chunks) < MaxChunks
            /\ chunks' = Append(chunks, Chunk(Len(chunks), documents[di].title, CurPara))
            /\ wins' = Append(wins, [doc |-> di, para |-> pi, s |-> 0, e |-> Len(CurPara)])
            /\ pi' = pi + 1
            /\ UNCHANGED <<di, start, ipc, cpc, stepsOk>>
       ELSE /\ start' = 0 /\ cpc' = "window"
            /\ UNCHANGED <<chunks, wins, di, pi, ipc, stepsOk>>
    /\ UNCHANGED <<kb, cache, chunk_chars, chunk_overlap, pre_k, documents,
                   embeddings, model, qa, reranker, fingerprint, initialized,
                   hit, runs, qpc, qobs, qres, fpIn, fpOut, sims, shortlist>>

\* One iteration of `while start < len(para)`.
ChunkWindow ==
    /\ ipc = "chunk" /\ cpc = "window"
    /\ IF start < Len(CurPara)
       THEN LET end == WindowEnd(Len(CurPara), start, chunk_chars)
                text == Slice(CurPara, start, end)
            IN  /\ Len(chunks) < MaxChunks
                /\ chunks' = Append(chunks, Chunk(Len(chunks), documents[di].title, text))
                /\ wins' = Append(wins, [doc |-> di, para |-> pi, s |-> start, e |-> end])
                /\ IF end = Len(CurPara)
                   THEN /\ cpc' = "para" /\ pi' = pi + 1 /\ start' = start
                   ELSE /\ start' = NextStart(end, chunk_overlap)
                        /\ UNCHANGED <<cpc, pi>>
       ELSE /\ cpc' = "para" /\ pi' = pi + 1
            /\ UNCHANGED <<chunks, wins, start>>
    /\ UNCHANGED <<kb, cache, chunk_chars, chunk_overlap, pre_k, documents,
                   embeddings, model, qa, reranker, fingerprint, initialized,
                   ipc, di, stepsOk, hit, runs, qpc, qobs, qres, fpIn, fpOut,
                   sims, shortlist>>

----------------------------------------------------------------------------
(* The chunker on its own: every configuration, every small corpus *)

ChunkAlphabet == {"a", "b", " ", "\n"}

TxtA == <<"a", ".", "t", "x", "t">>
TxtB == <<"b", ".", "t", "x", "t">>

ChunkKBs ==
    {<<File(TxtA, c, 10)>> : c \in Texts(ChunkAlphabet, MaxContent)}
    \cup {<<File(TxtA, c, 10), File(TxtB, <<"b", "a", "b">>, 10)>> :
            c \in Texts(ChunkAlphabet, MaxContent)}

IdleRest ==
    /\ cache = <<>> /\ embeddings = None /\ model = None /\ qa = None
    /\ reranker = None /\ fingerprint = None /\ initialized = FALSE
    /\ hit = FALSE /\ runs = 1 /\ qpc = "idle" /\ qobs = None /\ qres = None

InitChunk ==
    /\ kb \in ChunkKBs
    /\ chunk_chars \in 1..MaxChunkChars
    /\ chunk_overlap \in 0..MaxOverlap
    /\ pre_k = 1
    /\ documents = LoadDocuments(kb)
    /\ chunks = <<>> /\ wins = <<>> /\ di = 1 /\ pi = 1 /\ start = 0
    /\ ipc = "chunk" /\ cpc = "begin" /\ stepsOk = {"docs"}
    /\ IdleRest
    /\ fpIn = None /\ fpOut = None /\ sims = <<>> /\ shortlist = None

NextChunk == ChunkBegin \/ ChunkPara \/ ChunkWindow

SpecChunk == InitChunk /\ [][NextChunk]_vars

----------------------------------------------------------------------------
(* Properties of the chunker *)

ValidConfig ==
    chunk_chars >= 1 /\ 0 <= chunk_overlap /\ chunk_overlap < chunk_chars

ParaOf(w) == Paragraphs(documents[w.doc].content)[w.para]

WinsOf(d, p) == {i \in 1..Len(wins) : wins[i].doc = d /\ wins[i].para = p}

\* _chunk_documents has finished paragraph p of document d.
ParaDone(d, p) ==
    \/ ipc # "chunk"
    \/ cpc # "begin" /\ (d < di \/ (d = di /\ p < pi))

\* C5: with chunk_chars >= 1 and 0 <= chunk_overlap < chunk_chars, the chunks
\* of a paragraph are slices of it taken at increasing starts, no chunk text
\* is longer than chunk_chars, and once a paragraph is finished every
\* character position of it lies in one of its chunks.
C5_ChunksCoverParagraph ==
    ValidConfig =>
        /\ Len(wins) = Len(chunks)
        /\ \A i \in 1..Len(chunks) :
              /\ Len(chunks[i].text) <= chunk_chars
              /\ chunks[i].text = Slice(ParaOf(wins[i]), wins[i].s, wins[i].e)
              /\ chunks[i].title = documents[wins[i].doc].title
        /\ \A i, j \in 1..Len(wins) :
              (i < j /\ wins[i].doc = wins[j].doc /\ wins[i].para = wins[j].para)
                  => wins[i].s < wins[j].s
        /\ \A d \in 1..Len(documents) :
              \A p \in 1..Len(Paragraphs(documents[d].content)) :
                  ParaDone(d, p) =>
                      \A pos \in 1..Len(Paragraphs(documents[d].content)[p]) :
                          \E i \in WinsOf(d, p) :
                              wins[i].s < pos /\ pos <= wins[i].e

\* A paragraph longer than chunk_chars was sliced into overlapping windows
\* and the whole corpus is chunked.
C5_Witness ==
    /\ ValidConfig /\ chunk_overlap > 0 /\ ipc = "fingerprint"
    /\ \E i \in 1..Len(wins) :
          wins[i].s > 0 /\ Len(ParaOf(wins[i])) > chunk_chars

\* C4: with chunk_overlap >= chunk_chars, every pass of the while loop over a
\* paragraph longer than chunk_chars that goes on to another pass moves start
\* strictly forward (so the loop ends after at most len(para) passes).
C4_WindowStartsIncrease ==
    [][(/\ chunk_overlap >= chunk_chars
        /\ ipc = "chunk" /\ cpc = "window" /\ cpc' = "window"
        /\ Len(CurPara) > chunk_chars)
       => start' > start]_vars

----------------------------------------------------------------------------
(* _compute_fingerprint *)

DigitChars == <<"0", "1", "2", "3", "4", "5", "6", "7", "8", "9">>

\* str(n) for n >= 0
RECURSIVE Str(_)
Str(n) ==
    IF n < 10 THEN <<DigitChars[n + 1]>>
    ELSE Str(n \div 10) \o <<DigitChars[(n % 10) + 1]>>

\* The characters of the model's texts in code point order.
CharOrder == <<"\n", " ", ".", "0", "1", "2", "3", "4", "5", "6", "7", "8",
               "9", "a", "b", "m", "t", "x">>

Ord(c) == CHOOSE i \in 1..Len(CharOrder) : CharOrder[i] = c

\* a < b on str
RECURSIVE StrLess(_, _)
StrLess(a, b) ==
    IF b = <<>> THEN FALSE
    ELSE IF a = <<>> THEN TRUE
    ELSE IF Head(a) = Head(b) THEN StrLess(Tail(a), Tail(b))
    ELSE Ord(Head(a)) < Ord(Head(b))

RECURSIVE InsertByName(_, _)
InsertByName(f, sorted) ==
    IF sorted = <<>> THEN <<f>>
    ELSE IF StrLess(f.name, Head(sorted).name) THEN <<f>> \o sorted
    ELSE <<Head(sorted)>> \o InsertByName(f, Tail(sorted))

\* sorted(glob.glob(...)): the files of one directory, by name
RECURSIVE SortedFiles(_)
SortedFiles(files) ==
    IF files = <<>> THEN <<>>
    ELSE InsertByName(Head(files), SortedFiles(Tail(files)))

StSize(f) == Len(f.content)

\* int(st.st_mtime), the modification time being kept in tenths of a second
StMtimeSeconds(f) == f.mtime \div 10

\* The three updates of one file; a file whose stat fails adds nothing.
RECURSIVE FileUpdates(_)
FileUpdates(files) ==
    IF files = <<>> THEN <<>>
    ELSE LET f == Head(files)
         IN  (IF f.statable
              THEN f.name \o Str(StSize(f)) \o Str(StMtimeSeconds(f))
              ELSE <<>>) \o FileUpdates(Tail(files))

\* The digest, taken as injective on the bytes fed to it.
Digest(bytes) == [sha256 |-> bytes]

ComputeFingerprint(model_name, cc, co, files) ==
    Digest(model_name \o Str(cc) \o Str(co) \o FileUpdates(SortedFiles(files)))

ModelName == <<"m">>

----------------------------------------------------------------------------
(* The fingerprint on its own: two inputs, fingerprinted one after the other *)

FpFiles ==
    {<<>>}
    \cup {<<[name |-> n, content |-> [i \in 1..k |-> "a"], mtime |-> t,
             readable |-> TRUE, statable |-> st]>> :
            n \in {TxtA, TxtB}, k \in {1, 12}, t \in {20, 25, 120},
            st \in BOOLEAN}

FpInputs ==
    [model_name : {ModelName, <<"m", "1">>}, chunk_chars : {700, 7008},
     chunk_overlap : {0, 80}, files : FpFiles]

IdleChunker ==
    /\ documents = <<>> /\ chunks = <<>> /\ wins = <<>> /\ di = 1 /\ pi = 1
    /\ start = 0 /\ cpc = "begin" /\ stepsOk = {}

InitFp ==
    /\ fpIn \in FpInputs \X FpInputs
    /\ fpOut = <<None, None>>
    /\ kb = <<>> /\ chunk_chars = 700 /\ chunk_overlap = 80 /\ pre_k = 1
    /\ ipc = "idle"
    /\ IdleChunker /\ IdleRest
    /\ sims = <<>> /\ shortlist = None

FpCompute(i) ==
    /\ fpOut # None /\ fpOut[i] = None
    /\ fpOut' = [fpOut EXCEPT ![i] =
                    Some(ComputeFingerprint(fpIn[i].model_name, fpIn[i].chunk_chars,
                                            fpIn[i].chunk_overlap, fpIn[i].files))]
    /\ UNCHANGED <<kb, cache, chunk_chars, chunk_overlap, pre_k, documents,
                   chunks, embeddings, model, qa, reranker, fingerprint,
                   initialized, ipc, cpc, di, pi, start, wins, stepsOk, hit,
                   runs, qpc, qobs, qres, fpIn, sims, shortlist>>

NextFp == \E i \in 1..2 : FpCompute(i)

SpecFp == InitFp /\ [][NextFp]_vars

\* What the fingerprint is meant to tell apart: the model name, the two chunk
\* settings and each file's name, byte size and whole-second modification time.
FpKey(in) ==
    [model_name |-> in.model_name, chunk_chars |-> in.chunk_chars,
     chunk_overlap |-> in.chunk_overlap,
     files |-> {<<in.files[i].name, StSize(in.files[i]), StMtimeSeconds(in.files[i])>> :
                  i \in {j \in 1..Len(in.files) : in.files[j].statable}}]

\* C7: equal inputs give equal fingerprints, and inputs that differ in the
\* model name, chunk_chars, chunk_overlap or a file's name, size or
\* whole-second modification time give different fingerprints.
C7_FingerprintSeparatesInputs ==
    (fpOut # None /\ fpOut[1] # None /\ fpOut[2] # None) =>
        ((FpKey(fpIn[1]) = FpKey(fpIn[2])) <=> (fpOut[1] = fpOut[2]))

----------------------------------------------------------------------------
(* The similarity pre-shortlist of query() *)

MaxRows == 3       \* most chunks in a retrieval run
MaxScore == 2      \* similarity scores are 0..MaxScore
MaxPreK == 4       \* largest configured pre_k

Reverse(s) == [i \in 1..Len(s) |-> s[Len(s) + 1 - i]]

\* Python s[a:] for any integer a
SliceFrom(s, a) ==
    LET first == IF a < 0 THEN Max(0, Len(s) + a) ELSE Min(a, Len(s))
    IN  SubSeq(s, first + 1, Len(s))

Permutations1(n) ==
    {p \in [1..n -> 1..n] : \A i, j \in 1..n : i # j => p[i] # p[j]}

\* np.argsort(s) with the default, unstable sort: some order of the indices
\* (1-based here) along which the scores do not decrease.
ArgsortOrders(s) ==
    {p \in Permutations1(Len(s)) :
        \A i \in 1..(Len(s) - 1) : s[p[i]] <= s[p[i + 1]]}

\* np.argsort(sims)[-pre_k:][::-1]
PreIndices(order, k) == Reverse(SliceFrom(order, 0 - k))

InitRetrieve ==
    /\ \E n \in 1..MaxRows : sims \in [1..n -> 0..MaxScore]
    /\ pre_k \in 1..MaxPreK
    /\ shortlist = None
    /\ kb = <<>> /\ chunk_chars = 700 /\ chunk_overlap = 80
    /\ ipc = "idle"
    /\ IdleChunker /\ IdleRest
    /\ fpIn = None /\ fpOut = None

Retrieve ==
    /\ sims # <<>> /\ shortlist = None
    /\ \E order \in ArgsortOrders(sims) :
          shortlist' = Some(PreIndices(order, Min(Len(sims), pre_k)))
    /\ UNCHANGED <<kb, cache, chunk_chars, chunk_overlap, pre_k, documents,
                   chunks, embeddings, model, qa, reranker, fingerprint,
                   initialized, ipc, cpc, di, pi, start, wins, stepsOk, hit,
                   runs, qpc, qobs, qres, fpIn, fpOut, sims>>

NextRetrieve == Retrieve

SpecRetrieve == InitRetrieve /\ [][NextRetrieve]_vars

\* Chunk i comes before chunk j: a higher score, or the same score and an
\* earlier place in the chunk list.
RanksBefore(i, j) == sims[i] > sims[j] \/ (sims[i] = sims[j] /\ i < j)

\* C9: the pre-shortlist is the first min(pre_k, n) chunks by descending score,
\* equal scores in ascending chunk order.
C9_ShortlistStableDescending ==
    shortlist # None =>
        LET pre == shortlist[1]
        IN  /\ Len(pre) = Min(pre_k, Len(sims))
            /\ \A a, b \in 1..Len(pre) : a < b => RanksBefore(pre[a], pre[b])
            /\ \A i \in 1..Len(sims) :
                  (\A a \in 1..Len(pre) : pre[a] # i)
                      => \A a \in 1..Len(pre) : RanksBefore(pre[a], i)

----------------------------------------------------------------------------
(* The cache directory: _cache_paths, _load_cache, _save_cache *)

\* A file is absent (None) or present; a present file is readable with its
\* data, or damaged (cut short by a failed write).
Stored(data) == Some([ok |-> TRUE, data |-> data])
Damaged == Some([ok |-> FALSE, data |-> <<>>])

NoEntry == [emb |-> None, chunks |-> None]

\* The two files embeddings-<fp>.npy and chunks-<fp>.json
Entry(c, fp) == IF fp \in DOMAIN c THEN c[fp] ELSE NoEntry

BothExist(e) == e.emb # None /\ e.chunks # None

\* json.load gives a list with as many items as there are chunks
ChunksFileMatches(e, n) ==
    e.chunks # None /\ e.chunks[1].ok /\ Len(e.chunks[1].data) = n

\* The fields of the engine after _load_cache(), and the value it returns.
LoadCache(e, curChunks, curEmb) ==
    IF BothExist(e) /\ ChunksFileMatches(e, Len(curChunks))
    THEN IF e.emb[1].ok
         THEN [chunks |-> e.chunks[1].data, embeddings |-> Some(e.emb[1].data),
               ret |-> TRUE]
         ELSE [chunks |-> e.chunks[1].data, embeddings |-> curEmb, ret |-> FALSE]
    ELSE [chunks |-> curChunks, embeddings |-> curEmb, ret |-> FALSE]

\* How _save_cache can end: both files written, or an exception (swallowed)
\* while opening or writing the embedding file or, after it, the chunk file.
SaveOutcomes == {"saved", "emb_open_failed", "emb_write_failed",
                 "chunks_open_failed", "chunks_write_failed"}

SaveCache(e, curChunks, curEmb, outcome) ==
    CASE outcome = "saved" ->
            [emb |-> Stored(curEmb[1]), chunks |-> Stored(curChunks)]
      [] outcome = "emb_open_failed" -> e
      [] outcome = "emb_write_failed" -> [e EXCEPT !.emb = Damaged]
      [] outcome = "chunks_open_failed" -> [e EXCEPT !.emb = Stored(curEmb[1])]
      [] outcome = "chunks_write_failed" ->
            [emb |-> Stored(curEmb[1]), chunks |-> Damaged]

\* model.encode(texts): one row per text; a row is known by the text it encodes
EncodeAll(cs) == [i \in 1..Len(cs) |-> [vec |-> cs[i].text]]

----------------------------------------------------------------------------
(* initialize(), run once by the worker thread of app.py on a new engine *)

EngineChunkChars == 1   \* chunk_chars of the engine runs
EngineChunkOverlap == 0 \* chunk_overlap of the engine runs
TopK == 1               \* top_k of the engine runs
MaxRuns == 3            \* engines constructed, one after the other, on one cache_dir

\* pre_k as app.py and __init__ derive it from top_k
DefaultPreK == Max(TopK * 3, TopK)

\* The knowledge bases of the engine runs: an empty directory, or a.txt with
\* one of these contents. "a" and "b" have the same size and as many chunks;
\* "ab" and "ba" too; "ab" and "a\n" have the same size and, at chunk_chars 1,
\* not as many.
EngineContents ==
    {<<"a">>, <<"b">>, <<"a", "b">>, <<"b", "a">>, <<"a", "\n">>}

EngineKBs == {<<>>} \cup {<<File(TxtA, c, 10)>> : c \in EngineContents}

Loaded == Some("loaded")

queryVars == <<qpc, qobs, qres>>
pureVars == <<fpIn, fpOut, sims, shortlist>>
configVars == <<chunk_chars, chunk_overlap, pre_k>>
chunkerVars == <<cpc, di, pi, start, wins>>

\* RAGEngine.__init__
FreshEngine ==
    /\ documents = <<>> /\ chunks = <<>> /\ embeddings = None
    /\ model = None /\ qa = None /\ reranker = None
    /\ fingerprint = None /\ initialized = FALSE

InitEngine ==
    /\ kb \in EngineKBs
    /\ cache = <<>>
    /\ chunk_chars = EngineChunkChars /\ chunk_overlap = EngineChunkOverlap
    /\ pre_k = DefaultPreK
    /\ FreshEngine
    /\ ipc = "load_docs" /\ cpc = "begin" /\ di = 1 /\ pi = 1 /\ start = 0
    /\ wins = <<>> /\ stepsOk = {} /\ hit = FALSE /\ runs = 1
    /\ qpc = "idle" /\ qobs = None /\ qres = None
    /\ fpIn = None /\ fpOut = None /\ sims = <<>> /\ shortlist = None

InitLoadDocuments ==
    /\ ipc = "load_docs"
    /\ documents' = LoadDocuments(kb)
    /\ stepsOk' = {"docs"}
    /\ ipc' = "chunk"
    /\ UNCHANGED <<kb, cache, configVars, chunks, embeddings, model, qa,
                   reranker, fingerprint, initialized, chunkerVars, hit, runs,
                   queryVars, pureVars>>

\* _ensure_cache_dir (which changes nothing here: a directory that cannot be
\* made shows as failed saves) and _compute_fingerprint
InitFingerprint ==
    /\ ipc = "fingerprint"
    /\ fingerprint' = Some(ComputeFingerprint(ModelName, chunk_chars, chunk_overlap, kb))
    /\ ipc' = "load_model"
    /\ UNCHANGED <<kb, cache, configVars, documents, chunks, embeddings, model,
                   qa, reranker, initialized, chunkerVars, stepsOk, hit, runs,
                   queryVars, pureVars>>

InitLoadModelMarksReady ==
    /\ ipc = "load_model"
    /\ model' = Loaded
    /\ initialized' = TRUE
    /\ stepsOk' = stepsOk \cup {"model"}
    /\ ipc' = "load_cache"
    /\ UNCHANGED <<kb, cache, configVars, documents, chunks, embeddings, qa,
                   reranker, fingerprint, chunkerVars, hit, runs,
                   queryVars, pureVars>>

\* self.model = SentenceTransformer(self.model_name)
InitLoadModel ==
    /\ ipc = "load_model"
    /\ model' = Loaded
    /\ stepsOk' = stepsOk \cup {"model"}
    /\ ipc' = "load_cache"
    /\ UNCHANGED <<kb, cache, configVars, documents, chunks, embeddings, qa,
                   reranker, fingerprint, initialized, chunkerVars, hit, runs,
                   queryVars, pureVars>>

\* if not self._load_cache(): ... else: ...
InitLoadCache ==
    /\ ipc = "load_cache"
    /\ LET r == LoadCache(Entry(cache, fingerprint[1]), chunks, embeddings)
       IN  /\ chunks' = r.chunks
           /\ embeddings' = r.embeddings
           /\ hit' = r.ret
           /\ ipc' = IF r.ret THEN "qa" ELSE "encode"
           /\ stepsOk' = IF r.ret THEN stepsOk \cup {"cache"} ELSE stepsOk
    /\ UNCHANGED <<kb, cache, configVars, documents, model, qa, reranker,
                   fingerprint, initialized, chunkerVars, runs, queryVars,
                   pureVars>>

\* self.embeddings = self.model.encode(texts, ...)
InitEncode ==
    /\ ipc = "encode"
    /\ embeddings' = Some(EncodeAll(chunks))
    /\ stepsOk' = stepsOk \cup {"cache"}
    /\ ipc' = "save"
    /\ UNCHANGED <<kb, cache, configVars, documents, chunks, model, qa,
                   reranker, fingerprint, initialized, chunkerVars, hit, runs,
                   queryVars, pureVars>>

InitSaveCacheAlways ==
    /\ ipc \in {"save", "qa"}
    /\ \E outcome \in SaveOutcomes :
          cache' = (fingerprint[1] :>
                       SaveCache(Entry(cache, fingerprint[1]), chunks, embeddings, outcome))
                   @@ cache
    /\ ipc' = IF ipc = "save" THEN "qa" ELSE ipc
    /\ UNCHANGED <<kb, configVars, documents, chunks, embeddings, model, qa,
                   reranker, fingerprint, initialized, chunkerVars, stepsOk,
                   hit, runs, queryVars, pureVars>>

\* self._save_cache(), on the miss branch only
InitSaveCache ==
    /\ ipc = "save"
    /\ \E outcome \in SaveOutcomes :
          cache' = (fingerprint[1] :>
                       SaveCache(Entry(cache, fingerprint[1]), chunks, embeddings, outcome))
                   @@ cache
    /\ ipc' = "qa"
    /\ UNCHANGED <<kb, configVars, documents, chunks, embeddings, model, qa,
                   reranker, fingerprint, initialized, chunkerVars, stepsOk,
                   hit, runs, queryVars, pureVars>>

\* self.qa = pipeline(...), or None when that raises
InitLoadQA ==
    /\ ipc = "qa"
    /\ \E ok \in BOOLEAN : qa' = IF ok THEN Loaded ELSE None
    /\ ipc' = "reranker"
    /\ UNCHANGED <<kb, cache, configVars, documents, chunks, embeddings, model,
                   reranker, fingerprint, initialized, chunkerVars, stepsOk,
                   hit, runs, queryVars, pureVars>>

\* self.reranker = CrossEncoder(...), or None when that raises; then
\* self.initialized = True
InitLoadReranker ==
    /\ ipc = "reranker"
    /\ \E ok \in BOOLEAN : reranker' = IF ok THEN Loaded ELSE None
    /\ initialized' = TRUE
    /\ ipc' = "done"
    /\ UNCHANGED <<kb, cache, configVars, documents, chunks, embeddings, model,
                   qa, fingerprint, chunkerVars, stepsOk, hit, runs,
                   queryVars, pureVars>>

\* The steps whose exception reaches `except Exception` of initialize(); the
\* step that raises has assigned nothing.
RaisingSteps == {"load_docs", "chunk", "fingerprint", "load_model", "encode"}

InitException ==
    /\ ipc \in RaisingSteps
    /\ initialized' = FALSE
    /\ ipc' = "failed"
    /\ UNCHANGED <<kb, cache, configVars, documents, chunks, embeddings, model,
                   qa, reranker, fingerprint, chunkerVars, stepsOk, hit, runs,
                   queryVars, pureVars>>

\* The process is started again: initialize_rag() builds a new RAGEngine on
\* the same cache_dir; the knowledge base may have been edited meanwhile.
Restart ==
    /\ ipc \in {"done", "failed"}
    /\ runs < MaxRuns
    /\ runs' = runs + 1
    /\ kb' \in EngineKBs
    /\ documents' = <<>> /\ chunks' = <<>> /\ embeddings' = None
    /\ model' = None /\ qa' = None /\ reranker' = None
    /\ fingerprint' = None /\ initialized' = FALSE
    /\ ipc' = "load_docs" /\ cpc' = "begin" /\ di' = 1 /\ pi' = 1 /\ start' = 0
    /\ wins' = <<>> /\ stepsOk' = {} /\ hit' = FALSE
    /\ qpc' = "idle" /\ qobs' = None /\ qres' = None
    /\ UNCHANGED <<cache, configVars, pureVars>>

----------------------------------------------------------------------------
(* query(), run by a request thread at any moment *)

QaMinScore == 15       \* 0.15, in hundredths
ShortAnswerLen == 40

Sistema == <<"S", "i", "s", "t", "e", "m", "a">>

\* The fixed answers (written here without their accents)
MsgNotInitialized == "Sistema RAG nao inicializado."
MsgNoContent == "Nenhum conteudo disponivel na base."
MsgError == "Erro ao processar: <e>"

\* How a call ends: a dict is returned, or an exception reaches the caller.
\* used: which of the models the call invoked.
Return(answer, source, used) ==
    [kind |-> "return", answer |-> answer, source |-> source, used |-> used]
Raise(used) ==
    [kind |-> "raise", answer |-> "", source |-> <<>>, used |-> used]

OuterExceptReraises(used) == Raise(used)

\* except Exception as e: ... return {"answer": f"Erro ao processar: {e}", ...}
OuterExcept(used) == Return(MsgError, Sistema, used)

Take(s, k) == SubSeq(s, 1, Min(k, Len(s)))

\* list(dict.fromkeys(titles))
RECURSIVE Dedup(_, _)
Dedup(s, seen) ==
    IF s = <<>> THEN <<>>
    ELSE IF Head(s) \in seen THEN Dedup(Tail(s), seen)
    ELSE <<Head(s)>> \o Dedup(Tail(s), seen \cup {Head(s)})

\* ", ".join(parts)
RECURSIVE Join(_)
Join(parts) ==
    IF parts = <<>> THEN <<>>
    ELSE IF Len(parts) = 1 THEN Head(parts)
    ELSE Head(parts) \o <<",", " ">> \o Join(Tail(parts))

SourceOf(top) == Join(Dedup([i \in 1..Len(top) |-> top[i].title], {}))

\* sorted(zip(pre_chunks, scores), key=score, reverse=True): stable, so equal
\* scores keep the order they had.
RECURSIVE SortedDesc(_, _, _)
SortedDesc(items, sc, left) ==
    IF left = {} THEN <<>>
    ELSE LET i == CHOOSE x \in left :
                     \A y \in left : sc[x] > sc[y] \/ (sc[x] = sc[y] /\ x <= y)
         IN  <<items[i]>> \o SortedDesc(items, sc, left \ {i})

\* answer = self._build_answer(question, top_chunks); return {...}: the
\* extractive answer, or the outer handler's when building it raises.
Fallback(top, used) ==
    {Return("extractive", SourceOf(top), used), OuterExcept(used)}

\* What self.qa(...) can give: an exception (caught by the inner handler),
\* or an answer of some length with a score in hundredths.
QaOutputs ==
    {[raised |-> TRUE, len |-> 0, score |-> 0]}
    \cup [raised : {FALSE}, len : {0, 10, 40}, score : {10, 15}]

AfterQa(top, used, out) ==
    IF out.raised \/ out.len = 0 \/ out.score < QaMinScore
    THEN Fallback(top, used)
    ELSE IF out.len < ShortAnswerLen
    THEN {Return("qa_enriched", SourceOf(top), used)} \cup Fallback(top, used)
    ELSE {Return("qa_answer", SourceOf(top), used)}

Answers(top, used) ==
    IF qa # None
    THEN UNION {AfterQa(top, used \cup {"qa"}, out) : out \in QaOutputs}
    ELSE Fallback(top, used)

\* The top chunks: reranked, or the head of the pre-shortlist when there is no
\* reranker or its predict() raises.
Reranked(pre, used) ==
    IF reranker # None
    THEN UNION {Answers(Take(pre, TopK), used \cup {"reranker"})}
         \cup UNION {Answers(Take(SortedDesc(pre, sc, 1..Len(pre)), TopK),
                             used \cup {"reranker"}) :
                       sc \in [1..Len(pre) -> 0..1]}
    ELSE Answers(Take(pre, TopK), used)

\* pre_chunks = [self.chunks[i] for i in pre_indices]: IndexError when the
\* matrix has a row past the end of the chunk list.
Shortlisted(idx, used) ==
    IF \E a \in 1..Len(idx) : idx[a] > Len(chunks)
    THEN {OuterExcept(used)}
    ELSE Reranked([a \in 1..Len(idx) |-> chunks[idx[a]]], used)

\* The body of query() from the encoding of the question on.
Pipeline ==
    IF model = None \/ embeddings = None
    THEN {OuterExcept({})}
    ELSE {OuterExcept({"model"})}
         \cup UNION {UNION {Shortlisted(PreIndices(order, Min(Len(chunks), pre_k)),
                                        {"model"}) :
                              order \in ArgsortOrders(s)} :
                       s \in [1..Len(embeddings[1]) -> 0..MaxScore]}

QueryCallUnguarded ==
    /\ qpc = "idle" /\ ipc # "idle"
    /\ qobs' = Some([init |-> initialized, n |-> -1])
    /\ qres' = None /\ qpc' = "body"
    /\ UNCHANGED <<kb, cache, configVars, documents, chunks, embeddings, model,
                   qa, reranker, fingerprint, initialized, ipc, chunkerVars,
                   stepsOk, hit, runs, pureVars>>

\* if not self.initialized: return {...}
QueryCall ==
    /\ qpc = "idle" /\ ipc # "idle"
    /\ qobs' = Some([init |-> initialized, n |-> -1])
    /\ IF ~initialized
       THEN qres' = Some(Return(MsgNotInitialized, Sistema, {})) /\ qpc' = "idle"
       ELSE qres' = None /\ qpc' = "body"
    /\ UNCHANGED <<kb, cache, configVars, documents, chunks, embeddings, model,
                   qa, reranker, fingerprint, initialized, ipc, chunkerVars,
                   stepsOk, hit, runs, pureVars>>

\* try: if not self.chunks: return {...}; the pipeline; except Exception: ...
QueryBody ==
    /\ qpc = "body"
    /\ qobs' = Some([qobs[1] EXCEPT !.n = Len(chunks)])
    /\ IF chunks = <<>>
       THEN qres' = Some(Return(MsgNoContent, Sistema, {}))
       ELSE \E r \in Pipeline : qres' = Some(r)
    /\ qpc' = "idle"
    /\ UNCHANGED <<kb, cache, configVars, documents, chunks, embeddings, model,
                   qa, reranker, fingerprint, initialized, ipc, chunkerVars,
                   stepsOk, hit, runs, pureVars>>

NextEngine ==
    \/ InitLoadDocuments
    \/ ChunkBegin
    \/ ChunkPara
    \/ ChunkWindow
    \/ InitFingerprint
    \/ InitLoadModel
    \/ InitLoadCache
    \/ InitEncode
    \/ InitSaveCache
    \/ InitLoadQA
    \/ InitLoadReranker
    \/ InitException
    \/ Restart
    \/ QueryCall
    \/ QueryBody

Spec == InitEngine /\ [][NextEngine]_vars

----------------------------------------------------------------------------
(* Properties of the lifecycle *)

InitSteps == {"docs", "chunks", "model", "cache"}

\* C1: initialized is true only when the documents were loaded, the chunks
\* built, the embedding model loaded and the cache loaded or the embeddings
\* computed, all in this initialize() call and for the chunk list as it is;
\* and an initialize() that ended in its exception handler leaves it false.
C1_ReadyOnlyAfterAllSteps ==
    /\ initialized =>
          /\ InitSteps \subseteq stepsOk
          /\ model # None /\ embeddings # None /\ fingerprint # None
          /\ ipc = "done"
    /\ ipc = "failed" => ~initialized

\* An engine that became ready by computing the embeddings of its chunks.
C1_Witness ==
    initialized /\ ipc = "done" /\ ~hit /\ chunks # <<>> /\ InitSteps \subseteq stepsOk

\* C2: however query() ends, it ends by returning an answer and a source.
C2_QueryAlwaysReturns ==
    qres # None =>
        /\ qres[1].kind = "return"
        /\ qres[1].answer # ""
        /\ qres[1].source # <<>>

\* A query whose pipeline failed after the embedding model was invoked, on a
\* ready engine.
C2_Witness ==
    /\ qres # None /\ qres[1].answer = MsgError /\ "model" \in qres[1].used
    /\ initialized

\* C3: a query that read initialized as false, or read an empty chunk list,
\* returned one of the two fixed messages with source "Sistema" and invoked
\* none of the models.
C3_FallbackWithoutModels ==
    (qres # None /\ (~qobs[1].init \/ qobs[1].n = 0)) =>
        /\ qres[1].kind = "return"
        /\ qres[1].source = Sistema
        /\ qres[1].answer = (IF ~qobs[1].init THEN MsgNotInitialized ELSE MsgNoContent)
        /\ qres[1].used = {}

\* A query was answered with the fixed message while the worker thread was
\* still computing the embeddings.
C3_Witness ==
    /\ qres # None /\ ~qobs[1].init /\ qres[1].answer = MsgNotInitialized
    /\ ipc = "encode" /\ chunks # <<>>

----------------------------------------------------------------------------
(* Properties of the cache *)

\* C6: on a ready engine the embedding matrix has one row per chunk.
C6_RowsMatchChunks ==
    initialized => (embeddings # None /\ Len(embeddings[1]) = Len(chunks))

\* C8 as claimed: once both files of a fingerprint exist, neither is written
\* again.
C8_EntryWrittenOnce ==
    [][\A fp \in DOMAIN cache :
          BothExist(cache[fp]) => cache'[fp] = cache[fp]]_vars

\* _load_cache() would return True on entry e for a chunk list of n chunks.
Loads(e, n) == BothExist(e) /\ ChunksFileMatches(e, n) /\ e.emb[1].ok

\* C8 as amended: the files of a fingerprint are written only by the
\* initialize() of an engine of that fingerprint whose _load_cache() missed;
\* an entry that loads for the engine's chunk count is never written.
C8_LoadableEntryNeverWritten ==
    [][\A fp \in DOMAIN cache' :
          Entry(cache', fp) # Entry(cache, fp) =>
              /\ fingerprint = Some(fp)
              /\ ~hit
              /\ ~Loads(Entry(cache, fp), Len(chunks))]_vars

\* A second engine found the entry of its fingerprint, loaded it and became
\* ready.
C8_Witness ==
    /\ runs >= 2 /\ hit /\ initialized
    /\ fingerprint # None /\ BothExist(Entry(cache, fingerprint[1]))

\* C10: a _load_cache() that returns False leaves self.chunks and
\* self.embeddings as they were.
C10_MissLeavesFieldsAlone ==
    [][(ipc = "load_cache" /\ ipc' = "encode") =>
          (chunks' = chunks /\ embeddings' = embeddings)]_vars

====
